---------------------------- MODULE Spec2Model ----------------------------
(***************************************************************************)
(* Model of twine/commands/upload.py: find_dists, group_wheel_files_first, *)
(* skip_upload and the upload() loop.                                      *)
(*                                                                         *)
(* A string is a sequence of tokens (a token stands for a run of           *)
(* characters that the code never looks inside): "d/a.tar.gz.asc" is       *)
(* <<"d", "/", "a", ".tar.gz", ".asc">>.  endswith, startswith, basename,  *)
(* concatenation and "%s" formatting are computed on these sequences.      *)
(*                                                                         *)
(* Collaborators (repository client, PackageFile, utils) return normally   *)
(* unless stated otherwise; their results are drawn nondeterministically.  *)
(***************************************************************************)
EXTENDS Integers, Sequences, FiniteSets

VARIABLES
    dists,          \* upload()'s argument: the list of paths / patterns
    listing,        \* order in which the directory lists its entries
    skip_existing,  \* upload_settings.skip_existing
    sign,           \* upload_settings.sign
    pc,             \* position of upload(): start, loop, returned, raised
    resolved,       \* find_dists' local `uploads` before the grouping
    files,          \* `dists` after line 75 (the result of find_dists)
    signatures,     \* dict: base filename of a .asc file -> its path
    uploads,        \* the payload list of line 81
    idx,            \* 1-based position in `uploads` of the loop's `filename`
    calls,          \* the collaborator calls made so far, in order
    asked,          \* what package_is_uploaded said for uploads[idx]
    resp,           \* the response of repository.upload() for uploads[idx]
    exc,            \* the exception raised, if any
    skip_call       \* arguments and result of the last skip_upload() call

vars == <<dists, listing, skip_existing, sign, pc, resolved, files,
          signatures, uploads, idx, calls, asked, resp, exc, skip_call>>

----------------------------------------------------------------------------
(* Bounds *)

\* Longest argument list given to upload().
MaxDists == 2

----------------------------------------------------------------------------
(* Strings *)

\* str.endswith(suffix) for a one-token suffix.
endswith(s, tok) == Len(s) > 0 /\ s[Len(s)] = tok

\* str.startswith(prefix).
startswith(s, prefix) ==
    Len(s) >= Len(prefix) /\ SubSeq(s, 1, Len(prefix)) = prefix

\* str.startswith(tuple of prefixes): true when any of them is a prefix.
startswith_any(s, prefixes) ==
    \E k \in 1..Len(prefixes) : startswith(s, prefixes[k])

\* os.path.basename: what follows the last "/".
basename(path) ==
    LET slashes == {k \in 1..Len(path) : path[k] = "/"}
        last == IF slashes = {} THEN 0
                ELSE CHOOSE k \in slashes : \A j \in slashes : j <= k
    IN SubSeq(path, last + 1, Len(path))

----------------------------------------------------------------------------
(* The file system and glob *)

\* The files that exist.
FS == { <<"d", "/", "a", ".whl">>,
        <<"d", "/", "a", ".tar.gz">>,
        <<"d", "/", "a", ".tar.gz", ".asc">>,
        <<"d", "/", "b", ".whl">>,
        <<"e", "/", "a", ".tar.gz", ".asc">> }

\* The arguments find_dists is applied to on its own: existing files,
\* patterns, and two arguments that name no file.
DistArgs == FS \cup
    { <<"d", "/", "*">>,
      <<"d", "/", "*", ".whl">>,
      <<"d", "/", "a", ".tar.gz", "*">>,
      <<"d", "/", "*", ".zip">>,
      <<"d", "/", "c", ".whl">> }

\* The arguments given to a run of upload().
UploadArgs ==
    { <<"d", "/", "a", ".whl">>,
      <<"d", "/", "a", ".tar.gz">>,
      <<"d", "/", "a", ".tar.gz", ".asc">>,
      <<"d", "/", "b", ".whl">>,
      <<"e", "/", "a", ".tar.gz", ".asc">>,
      <<"d", "/", "a", "*">>,
      <<"d", "/", "*", ".zip">>,
      <<"d", "/", "c", ".whl">> }

\* The directory orders a run of upload() is explored under.
Listings ==
    { << <<"d", "/", "a", ".tar.gz">>, <<"d", "/", "a", ".whl">>,
         <<"d", "/", "a", ".tar.gz", ".asc">>, <<"d", "/", "b", ".whl">>,
         <<"e", "/", "a", ".tar.gz", ".asc">> >>,
      << <<"e", "/", "a", ".tar.gz", ".asc">>,
         <<"d", "/", "a", ".tar.gz", ".asc">>, <<"d", "/", "b", ".whl">>,
         <<"d", "/", "a", ".whl">>, <<"d", "/", "a", ".tar.gz">> >> }

\* All orders of a finite set, as sequences without repetition.
Perms(S) ==
    {s \in [1..Cardinality(S) -> S] : \A i, j \in DOMAIN s : s[i] = s[j] => i = j}

\* os.path.exists.
exists(path) == path \in FS

\* fnmatch on one path: "*" matches any run of tokens without "/".
RECURSIVE fnmatch(_, _)
fnmatch(name, pat) ==
    IF pat = <<>> THEN name = <<>>
    ELSE IF Head(pat) = "*"
         THEN \/ fnmatch(name, Tail(pat))
              \/ /\ name # <<>>
                 /\ Head(name) # "/"
                 /\ fnmatch(Tail(name), pat)
         ELSE /\ name # <<>>
              /\ Head(name) = Head(pat)
              /\ fnmatch(Tail(name), Tail(pat))

\* glob.glob: the matching files, in the order the directory lists them.
glob(pattern, dirlist) == SelectSeq(dirlist, LAMBDA f : fnmatch(f, pattern))

----------------------------------------------------------------------------
(* group_wheel_files_first *)

is_wheel(fname) == endswith(fname, ".whl")

\* The sort key of line 33.
wheel_key(x) == IF is_wheel(x) THEN -1 ELSE 0

\* The keys of the elements of a list, as list.sort computes them first.
wheel_keys(s) == [x \in {s[k] : k \in 1..Len(s)} |-> wheel_key(x)]

\* list.sort(key=...): a stable sort; an element goes after every element
\* whose key is not greater than its own.  `keys` maps elements to keys.
RECURSIVE insert_stable(_, _, _)
insert_stable(sorted, x, keys) ==
    IF sorted = <<>> THEN <<x>>
    ELSE IF keys[Head(sorted)] <= keys[x]
         THEN <<Head(sorted)>> \o insert_stable(Tail(sorted), x, keys)
         ELSE <<x>> \o sorted

RECURSIVE sort_from(_, _, _)
sort_from(sorted, rest, keys) ==
    IF rest = <<>> THEN sorted
    ELSE sort_from(insert_stable(sorted, Head(rest), keys), Tail(rest), keys)

list_sort(s, keys) == sort_from(<<>>, s, keys)

\* A sort that puts an element before the earlier elements of equal key.
RECURSIVE insert_unstable(_, _, _)
insert_unstable(sorted, x, keys) ==
    IF sorted = <<>> THEN <<x>>
    ELSE IF keys[Head(sorted)] < keys[x]
         THEN <<Head(sorted)>> \o insert_unstable(Tail(sorted), x, keys)
         ELSE <<x>> \o sorted

RECURSIVE unstable_from(_, _, _)
unstable_from(sorted, rest, keys) ==
    IF rest = <<>> THEN sorted
    ELSE unstable_from(insert_unstable(sorted, Head(rest), keys), Tail(rest), keys)

\* group_wheel_files_first with a sort that is not stable.
group_unstable(fs) ==
    IF ~ \E k \in 1..Len(fs) : is_wheel(fs[k])
    THEN fs
    ELSE unstable_from(<<>>, fs, wheel_keys(fs))

\* A key that also moves signature files behind the distributions.
asc_last_key(x) ==
    IF is_wheel(x) THEN -1 ELSE IF endswith(x, ".asc") THEN 1 ELSE 0

\* group_wheel_files_first without the early return and with asc_last_key.
group_always_sorts(fs) ==
    list_sort(fs, [x \in {fs[k] : k \in 1..Len(fs)} |-> asc_last_key(x)])

group_wheel_files_first(fs) ==
    IF ~ \E k \in 1..Len(fs) : is_wheel(fs[k])
    THEN fs
    ELSE list_sort(fs, wheel_keys(fs))

----------------------------------------------------------------------------
(* find_dists *)

\* "Cannot find file (or expand pattern): '%s'" % filename
cannot_find_message(filename) ==
    <<"Cannot find file (or expand pattern): '">> \o filename \o <<"'">>

\* The for loop of find_dists with an unmatched pattern skipped, not raised.
RECURSIVE find_dists_skips_unmatched(_, _, _)
find_dists_skips_unmatched(ds, acc, dirlist) ==
    IF ds = <<>>
    THEN [raised |-> FALSE, uploads |-> acc, message |-> <<>>]
    ELSE LET filename == Head(ds)
         IN IF exists(filename)
            THEN find_dists_skips_unmatched(Tail(ds), Append(acc, filename), dirlist)
            ELSE find_dists_skips_unmatched(
                     Tail(ds), acc \o glob(filename, dirlist), dirlist)

\* The for loop of find_dists keeping one entry per file.
RECURSIVE find_dists_dedups(_, _, _)
find_dists_dedups(ds, acc, dirlist) ==
    IF ds = <<>>
    THEN [raised |-> FALSE, uploads |-> acc, message |-> <<>>]
    ELSE LET filename == Head(ds)
             seen == {acc[k] : k \in 1..Len(acc)}
             fresh(f) == f \notin seen
         IN IF exists(filename)
            THEN find_dists_dedups(
                     Tail(ds),
                     IF fresh(filename) THEN Append(acc, filename) ELSE acc,
                     dirlist)
            ELSE LET fs == glob(filename, dirlist)
                 IN IF fs = <<>>
                    THEN [raised |-> TRUE, uploads |-> acc,
                          message |-> cannot_find_message(filename)]
                    ELSE find_dists_dedups(
                             Tail(ds), acc \o SelectSeq(fs, fresh), dirlist)

\* The for loop of find_dists (lines 40-52): `ds` is what is left of the
\* argument, `acc` the local `uploads` so far.
RECURSIVE find_dists_loop(_, _, _)
find_dists_loop(ds, acc, dirlist) ==
    IF ds = <<>>
    THEN [raised |-> FALSE, uploads |-> acc, message |-> <<>>]
    ELSE LET filename == Head(ds)
         IN IF exists(filename)
            THEN find_dists_loop(Tail(ds), Append(acc, filename), dirlist)
            ELSE LET fs == glob(filename, dirlist)
                 IN IF fs = <<>>
                    THEN [raised |-> TRUE, uploads |-> acc,
                          message |-> cannot_find_message(filename)]
                    ELSE find_dists_loop(Tail(ds), acc \o fs, dirlist)

\* find_dists: the loop, then the grouping of what it collected.
find_dists(ds, dirlist) ==
    LET r == find_dists_loop(ds, <<>>, dirlist)
    IN IF r.raised
       THEN [raised |-> TRUE, resolved |-> <<>>, result |-> <<>>,
             message |-> r.message]
       ELSE [raised |-> FALSE, resolved |-> r.uploads,
             result |-> group_wheel_files_first(r.uploads), message |-> <<>>]

----------------------------------------------------------------------------
(* Responses and skip_upload *)

\* 'A file named "{0}" already exists for'.format(filename)
named_exists_message(filename) ==
    <<"A file named \"">> \o filename \o <<"\" already exists for">>

file_exists_message == <<"File already exists">>

\* PackageFile.from_filename: the attributes upload() reads.
from_filename(filename) ==
    [filename |-> filename,
     basefilename |-> basename(filename),
     signed_basefilename |-> basename(filename) \o <<".asc">>]

\* The payload files of FS, as packages.
Packages == {from_filename(f) : f \in {g \in FS : ~ endswith(g, ".asc")}}

Statuses == {200, 400, 403, 409, 500}

Reasons ==
    { <<"OK">>,
      <<"Conflict">>,
      file_exists_message,
      file_exists_message \o <<".">>,
      <<"Bad Request: ">> \o file_exists_message,
      named_exists_message(<<"a", ".whl">>) \o <<" pkg">>,
      <<"Some other error">> }

Response(status, reason, redirect) ==
    [status_code |-> status, reason |-> reason, is_redirect |-> redirect]

\* The responses skip_upload is applied to on its own.
AllResponses ==
    {Response(st, re, rd) : st \in Statuses, re \in Reasons, rd \in BOOLEAN}

\* The responses repository.upload() may return in a run of upload().
UploadResponses ==
    { Response(200, <<"OK">>, FALSE),
      Response(409, <<"Conflict">>, FALSE),
      Response(400, file_exists_message, FALSE),
      Response(400, <<"Some other error">>, FALSE),
      Response(500, <<"Some other error">>, FALSE),
      Response(200, <<"OK">>, TRUE),
      Response(409, <<"Conflict">>, TRUE),
      Response(400, file_exists_message, TRUE) }

\* No response: the payload was not uploaded.
NoResp == Response(0, <<>>, FALSE)

\* skip_upload that forgets the skip_existing setting.
skip_upload_ignores_setting(response, skip_existing_arg, package) ==
    LET filename == package.basefilename
        msg == <<named_exists_message(filename), file_exists_message>>
    IN \/ response.status_code = 409
       \/ /\ response.status_code = 400
          /\ startswith_any(response.reason, msg)

\* skip_upload that knows the 400 wording only, not status 409.
skip_upload_without_409(response, skip_existing_arg, package) ==
    LET filename == package.basefilename
        msg == <<named_exists_message(filename), file_exists_message>>
    IN /\ skip_existing_arg
       /\ response.status_code = 400
       /\ startswith_any(response.reason, msg)

\* skip_upload that matches the reason without looking for status 400.
skip_upload_reason_only(response, skip_existing_arg, package) ==
    LET filename == package.basefilename
        msg == <<named_exists_message(filename), file_exists_message>>
    IN /\ skip_existing_arg
       /\ \/ response.status_code = 409
          \/ startswith_any(response.reason, msg)

\* skip_upload (lines 56-71).
skip_upload(response, skip_existing_arg, package) ==
    LET filename == package.basefilename
        msg == <<named_exists_message(filename), file_exists_message>>
    IN /\ skip_existing_arg
       /\ \/ response.status_code = 409
          \/ /\ response.status_code = 400
             /\ startswith_any(response.reason, msg)

\* utils.check_status_code: raises for a client or server error status.
check_status_code_raises(response) ==
    response.status_code >= 400 /\ response.status_code < 600

----------------------------------------------------------------------------
(* upload(): pairing of signatures and payloads *)

is_signature(d) == endswith(d, ".asc")

\* dict(pairs): a later pair replaces an earlier one with the same key.
RECURSIVE dict_from(_, _)
dict_from(pairs, acc) ==
    IF pairs = <<>> THEN acc
    ELSE LET p == Head(pairs)
         IN dict_from(Tail(pairs),
                      [k \in DOMAIN acc \cup {p[1]} |->
                          IF k = p[1] THEN p[2] ELSE acc[k]])

\* A signature dict keyed by the path as given, directory included.
signatures_by_path(fileList) ==
    LET ascs == SelectSeq(fileList, is_signature)
    IN dict_from([k \in 1..Len(ascs) |-> <<ascs[k], ascs[k]>>], <<>>)

\* Lines 78-80.
signatures_of(fileList) ==
    LET ascs == SelectSeq(fileList, is_signature)
    IN dict_from([k \in 1..Len(ascs) |-> <<basename(ascs[k]), ascs[k]>>], <<>>)

\* The payloads collected without keeping the order of the file list.
payloads_order_lost(fileList) ==
    LET ps == SelectSeq(fileList, LAMBDA i : ~ is_signature(i))
    IN [k \in 1..Len(ps) |-> ps[Len(ps) + 1 - k]]

\* Line 81.
payloads_of(fileList) == SelectSeq(fileList, LAMBDA i : ~ is_signature(i))

----------------------------------------------------------------------------
(* upload(): one pass of the loop body *)

Call(op, i, args) == [op |-> op, idx |-> i, args |-> args]

\* The condition of lines 99-100 never taken.
preflight_skip_never(skip_ex, is_uploaded) == FALSE

\* The condition of lines 99-100 without the skip_existing setting.
preflight_skip_ignores_setting(skip_ex, is_uploaded) == is_uploaded

\* The condition of lines 99-100.
preflight_skip(skip_ex, is_uploaded) == skip_ex /\ is_uploaded

\* Lines 104-108 with the sign setting tested before the supplied signature.
signature_calls_sign_first(package, i, sigs, sign_on) ==
    LET signed_name == package.signed_basefilename
    IN IF sign_on
       THEN <<Call("sign", i, <<package.filename>>)>>
       ELSE IF signed_name \in DOMAIN sigs
            THEN <<Call("add_gpg_signature", i, <<sigs[signed_name], signed_name>>)>>
            ELSE <<>>

\* Lines 104-108 with `if` in place of `elif`: both operations may be made.
signature_calls_both(package, i, sigs, sign_on) ==
    LET signed_name == package.signed_basefilename
    IN (IF signed_name \in DOMAIN sigs
        THEN <<Call("add_gpg_signature", i, <<sigs[signed_name], signed_name>>)>>
        ELSE <<>>)
       \o (IF sign_on
           THEN <<Call("sign", i, <<package.filename>>)>>
           ELSE <<>>)

\* Lines 104-108 attaching a supplied signature whatever its name.
signature_calls_any_supplied(package, i, sigs, sign_on) ==
    LET signed_name == package.signed_basefilename
    IN IF DOMAIN sigs # {}
       THEN LET name == CHOOSE n \in DOMAIN sigs :
                           n = signed_name \/ signed_name \notin DOMAIN sigs
            IN <<Call("add_gpg_signature", i, <<sigs[name], name>>)>>
       ELSE IF sign_on
            THEN <<Call("sign", i, <<package.filename>>)>>
            ELSE <<>>

\* Lines 104-108: the signature operations made for a package.
signature_calls(package, i, sigs, sign_on) ==
    LET signed_name == package.signed_basefilename
    IN IF signed_name \in DOMAIN sigs
       THEN <<Call("add_gpg_signature", i, <<sigs[signed_name], signed_name>>)>>
       ELSE IF sign_on
            THEN <<Call("sign", i, <<package.filename>>)>>
            ELSE <<>>

\* A redirect check that looks at the status code of the response.
redirect_by_status(response) == response.status_code >= 300 /\ response.status_code < 400

\* Line 116.
redirect_detected(response) == response.is_redirect

\* The message of lines 118-120; the URL and the location are opaque.
redirect_message ==
    <<"\"", "repository_url", "\" attempted to redirect to \"",
      "location", "\" during upload. Aborting...">>

\* The loop body with the signature attached before the existence check.
process_file_signs_first(filename, i, sigs, skip_ex, sign_on, is_uploaded, response) ==
    LET package == from_filename(filename)
        c_new == <<Call("from_filename", i, <<filename>>)>>
                     \o signature_calls(package, i, sigs, sign_on)
        c_pre == IF skip_ex
                 THEN <<Call("package_is_uploaded", i, <<filename>>)>>
                 ELSE <<>>
        c_msg == <<Call("print_skip", i, <<package.basefilename>>)>>
        c_up == c_new \o c_pre \o <<Call("upload", i, <<filename>>)>>
        answer == IF ~ skip_ex THEN "not_called"
                 ELSE IF is_uploaded THEN "true" ELSE "false"
        skip == skip_upload(response, skip_ex, package)
    IN IF preflight_skip(skip_ex, is_uploaded)
       THEN [calls |-> c_new \o c_pre \o c_msg, preflight |-> answer,
             resp |-> NoResp, outcome |-> "continue",
             classified |-> FALSE, skip |-> FALSE]
       ELSE IF redirect_detected(response)
       THEN [calls |-> c_up, preflight |-> answer,
             resp |-> response, outcome |-> "RedirectDetected",
             classified |-> FALSE, skip |-> FALSE]
       ELSE IF skip
       THEN [calls |-> c_up \o c_msg, preflight |-> answer,
             resp |-> response, outcome |-> "continue",
             classified |-> TRUE, skip |-> skip]
       ELSE [calls |-> c_up \o <<Call("check_status_code", i, <<filename>>)>>,
             preflight |-> answer, resp |-> response,
             outcome |-> IF check_status_code_raises(response)
                         THEN "HTTPError" ELSE "continue",
             classified |-> TRUE, skip |-> skip]

\* The loop body with the duplicate classification before the redirect check.
process_file_classifies_first(filename, i, sigs, skip_ex, sign_on, is_uploaded, response) ==
    LET package == from_filename(filename)
        c_new == <<Call("from_filename", i, <<filename>>)>>
        c_pre == IF skip_ex
                 THEN <<Call("package_is_uploaded", i, <<filename>>)>>
                 ELSE <<>>
        c_msg == <<Call("print_skip", i, <<package.basefilename>>)>>
        c_up == c_new \o c_pre \o signature_calls(package, i, sigs, sign_on)
                      \o <<Call("upload", i, <<filename>>)>>
        answer == IF ~ skip_ex THEN "not_called"
                 ELSE IF is_uploaded THEN "true" ELSE "false"
        skip == skip_upload(response, skip_ex, package)
    IN IF preflight_skip(skip_ex, is_uploaded)
       THEN [calls |-> c_new \o c_pre \o c_msg, preflight |-> answer,
             resp |-> NoResp, outcome |-> "continue",
             classified |-> FALSE, skip |-> FALSE]
       ELSE IF skip
       THEN [calls |-> c_up \o c_msg, preflight |-> answer,
             resp |-> response, outcome |-> "continue",
             classified |-> TRUE, skip |-> skip]
       ELSE IF redirect_detected(response)
       THEN [calls |-> c_up, preflight |-> answer,
             resp |-> response, outcome |-> "RedirectDetected",
             classified |-> TRUE, skip |-> skip]
       ELSE [calls |-> c_up \o <<Call("check_status_code", i, <<filename>>)>>,
             preflight |-> answer, resp |-> response,
             outcome |-> IF check_status_code_raises(response)
                         THEN "HTTPError" ELSE "continue",
             classified |-> TRUE, skip |-> skip]

\* Lines 90-125 for one payload: the calls made, what the existence check
\* said, the response, and how the pass ends ("continue" or an exception).
process_file(filename, i, sigs, skip_ex, sign_on, is_uploaded, response) ==
    LET package == from_filename(filename)
        c_new == <<Call("from_filename", i, <<filename>>)>>
        c_pre == IF skip_ex
                 THEN <<Call("package_is_uploaded", i, <<filename>>)>>
                 ELSE <<>>
        c_msg == <<Call("print_skip", i, <<package.basefilename>>)>>
        c_up == c_new \o c_pre \o signature_calls(package, i, sigs, sign_on)
                      \o <<Call("upload", i, <<filename>>)>>
        answer == IF ~ skip_ex THEN "not_called"
                 ELSE IF is_uploaded THEN "true" ELSE "false"
        skip == skip_upload(response, skip_ex, package)
    IN IF preflight_skip(skip_ex, is_uploaded)
       THEN [calls |-> c_new \o c_pre \o c_msg, preflight |-> answer,
             resp |-> NoResp, outcome |-> "continue",
             classified |-> FALSE, skip |-> FALSE]
       ELSE IF redirect_detected(response)
       THEN [calls |-> c_up, preflight |-> answer,
             resp |-> response, outcome |-> "RedirectDetected",
             classified |-> FALSE, skip |-> FALSE]
       ELSE IF skip
       THEN [calls |-> c_up \o c_msg, preflight |-> answer,
             resp |-> response, outcome |-> "continue",
             classified |-> TRUE, skip |-> skip]
       ELSE [calls |-> c_up \o <<Call("check_status_code", i, <<filename>>)>>,
             preflight |-> answer, resp |-> response,
             outcome |-> IF check_status_code_raises(response)
                         THEN "HTTPError" ELSE "continue",
             classified |-> TRUE, skip |-> skip]

\* The message of the exception a pass of the loop ends with.
exception_message(kind, response) ==
    IF kind = "RedirectDetected" THEN redirect_message ELSE response.reason

----------------------------------------------------------------------------
(* The state machine of upload() *)

NoException == [type |-> "none", message |-> <<>>]

NoSkipCall ==
    [called |-> FALSE, response |-> NoResp, skip_existing |-> FALSE,
     package |-> from_filename(<<>>), result |-> FALSE]

\* The argument lists a run of upload() is given.
ArgLists == UNION {[1..n -> UploadArgs] : n \in 1..MaxDists}

Init ==
    /\ dists \in ArgLists
    /\ listing \in Listings
    /\ skip_existing \in BOOLEAN
    /\ sign \in BOOLEAN
    /\ pc = "start"
    /\ resolved = <<>>
    /\ files = <<>>
    /\ signatures = <<>>
    /\ uploads = <<>>
    /\ idx = 0
    /\ calls = <<>>
    /\ asked = "not_called"
    /\ resp = NoResp
    /\ exc = NoException
    /\ skip_call = NoSkipCall

\* Line 75 raising: find_dists met an argument that matches nothing.
FindDistsRaises ==
    /\ pc = "start"
    /\ LET r == find_dists(dists, listing)
       IN /\ r.raised
          /\ exc' = [type |-> "ValueError", message |-> r.message]
    /\ pc' = "raised"
    /\ UNCHANGED <<dists, listing, skip_existing, sign, resolved, files,
                   signatures, uploads, idx, calls, asked, resp, skip_call>>

\* Lines 75-89: resolution, pairing, creation of the repository client and
\* entry into the loop; with no payload the loop is over at once (line 129).
Begin ==
    /\ pc = "start"
    /\ LET r == find_dists(dists, listing)
           ups == payloads_of(r.result)
           c == <<Call("create_repository", 0, <<>>)>>
       IN /\ ~ r.raised
          /\ resolved' = r.resolved
          /\ files' = r.result
          /\ signatures' = signatures_of(r.result)
          /\ uploads' = ups
          /\ IF ups = <<>>
             THEN /\ calls' = c \o <<Call("close", 0, <<>>)>>
                  /\ pc' = "returned"
             ELSE /\ calls' = c
                  /\ pc' = "loop"
    /\ UNCHANGED <<dists, listing, skip_existing, sign, idx, asked, resp,
                   exc, skip_call>>

\* Lines 89-129: one pass of the loop, for the payload after uploads[idx];
\* the pass for the last payload goes on to line 129 unless it raised.
UploadFile ==
    /\ pc = "loop"
    /\ idx' = idx + 1
    /\ \E is_uploaded \in BOOLEAN, response \in UploadResponses :
         LET filename == uploads[idx + 1]
             r == process_file(filename, idx + 1, signatures, skip_existing,
                               sign, is_uploaded, response)
         IN /\ asked' = r.preflight
            /\ resp' = r.resp
            /\ skip_call' =
                 IF r.classified
                 THEN [called |-> TRUE, response |-> response,
                       skip_existing |-> skip_existing,
                       package |-> from_filename(filename),
                       result |-> r.skip]
                 ELSE skip_call
            /\ IF r.outcome = "continue"
               THEN /\ exc' = exc
                    /\ IF idx + 1 = Len(uploads)
                       THEN /\ calls' = calls \o r.calls
                                           \o <<Call("close", 0, <<>>)>>
                            /\ pc' = "returned"
                       ELSE /\ calls' = calls \o r.calls
                            /\ pc' = "loop"
               ELSE /\ exc' = [type |-> r.outcome,
                               message |-> exception_message(r.outcome, response)]
                    /\ calls' = calls \o r.calls
                    /\ pc' = "raised"
    /\ UNCHANGED <<dists, listing, skip_existing, sign, resolved, files,
                   signatures, uploads>>

Next == FindDistsRaises \/ Begin \/ UploadFile

Spec == Init /\ [][Next]_vars

----------------------------------------------------------------------------
(* find_dists on its own *)

InitFindDists ==
    /\ dists \in UNION {[1..n -> DistArgs] : n \in 1..MaxDists}
    /\ listing \in Perms(FS)
    /\ skip_existing = FALSE
    /\ sign = FALSE
    /\ pc = "find_dists"
    /\ resolved = <<>>
    /\ files = <<>>
    /\ signatures = <<>>
    /\ uploads = <<>>
    /\ idx = 0
    /\ calls = <<>>
    /\ asked = "not_called"
    /\ resp = NoResp
    /\ exc = NoException
    /\ skip_call = NoSkipCall

\* find_dists(dists): returns the grouped list or raises ValueError.
CallFindDists ==
    /\ pc = "find_dists"
    /\ LET r == find_dists(dists, listing)
       IN IF r.raised
          THEN /\ pc' = "raised"
               /\ exc' = [type |-> "ValueError", message |-> r.message]
               /\ UNCHANGED <<resolved, files>>
          ELSE /\ pc' = "found"
               /\ resolved' = r.resolved
               /\ files' = r.result
               /\ exc' = exc
    /\ UNCHANGED <<dists, listing, skip_existing, sign, signatures, uploads,
                   idx, calls, asked, resp, skip_call>>

SpecFindDists == InitFindDists /\ [][CallFindDists]_vars

----------------------------------------------------------------------------
(* skip_upload on its own *)

InitSkipUpload ==
    /\ dists = <<>>
    /\ listing = <<>>
    /\ skip_existing = FALSE
    /\ sign = FALSE
    /\ pc = "skip_upload"
    /\ resolved = <<>>
    /\ files = <<>>
    /\ signatures = <<>>
    /\ uploads = <<>>
    /\ idx = 0
    /\ calls = <<>>
    /\ asked = "not_called"
    /\ resp = NoResp
    /\ exc = NoException
    /\ skip_call \in [called : {FALSE}, response : AllResponses,
                      skip_existing : BOOLEAN, package : Packages,
                      result : {FALSE}]

\* skip_upload(response, skip_existing, package) applied to its arguments.
CallSkipUpload ==
    /\ pc = "skip_upload"
    /\ pc' = "classified"
    /\ skip_call' = [skip_call EXCEPT
                        !.called = TRUE,
                        !.result = skip_upload(skip_call.response,
                                               skip_call.skip_existing,
                                               skip_call.package)]
    /\ UNCHANGED <<dists, listing, skip_existing, sign, resolved, files,
                   signatures, uploads, idx, calls, asked, resp, exc>>

SpecSkipUpload == InitSkipUpload /\ [][CallSkipUpload]_vars

----------------------------------------------------------------------------
(* Properties of upload() *)

\* Positions in the call log of the calls of `op` made for payload i.
CallsOf(op, i) ==
    {k \in DOMAIN calls : calls[k].op = op /\ calls[k].idx = i}

\* How many times `op` was called.
Count(op) == Cardinality({k \in DOMAIN calls : calls[k].op = op})

\* upload() is over, by return or by exception.
Exited == pc \in {"returned", "raised"}

\* After the pass for uploads[idx] the loop goes on: to the next payload,
\* or, after the last one, to the normal end of upload().
Proceeds ==
    /\ exc = NoException
    /\ IF idx < Len(uploads) THEN pc = "loop" ELSE pc = "returned"

\* The response of the last pass is one that was received from upload().
Uploaded == idx > 0 /\ CallsOf("upload", idx) # {}

\* C1: on every exit path taken after the repository client was created
\* (normal end of the loop, RedirectDetected, a failing status check),
\* repository.close() has been called exactly once when upload() is over.
C1_CloseExactlyOnceOnEveryExit ==
    (Exited /\ Count("create_repository") > 0) => Count("close") = 1

\* C2: a response with is_redirect true raises RedirectDetected and no
\* later payload of the batch is passed to any collaborator call, whatever
\* happened to the earlier payloads.
C2_RedirectAbortsBatch ==
    (Uploaded /\ resp.is_redirect) =>
        /\ pc = "raised"
        /\ exc.type = "RedirectDetected"
        /\ \A k \in DOMAIN calls : calls[k].idx <= idx

\* A redirect for the third payload of four, after an earlier payload was
\* skipped and another accepted.
C2_Witness ==
    /\ Uploaded /\ resp.is_redirect
    /\ idx >= 3 /\ idx < Len(uploads)
    /\ \E i \in 1..(idx - 1) : CallsOf("print_skip", i) # {}
    /\ \E i \in 1..(idx - 1) : CallsOf("check_status_code", i) # {}

\* C3: with skip_existing on, a payload for which package_is_uploaded
\* returned true is reported as skipped, is never passed to upload(), and
\* the loop proceeds to the next payload.
C3_PreflightSkip ==
    (idx > 0 /\ skip_existing /\ asked = "true") =>
        /\ CallsOf("package_is_uploaded", idx) # {}
        /\ \E k \in CallsOf("print_skip", idx) :
               calls[k].args = <<basename(uploads[idx])>>
        /\ CallsOf("upload", idx) = {}
        /\ resp = NoResp
        /\ Proceeds

\* A payload that is not the last one is skipped by the existence check.
C3_Witness ==
    /\ idx > 0 /\ skip_existing /\ asked = "true"
    /\ idx < Len(uploads)
    /\ pc = "loop"

\* C4: with skip_existing on, a payload the existence check did not find,
\* and a non-redirect response with status 409: the payload is reported as
\* skipped, check_status_code is not applied, and the loop proceeds.
C4_Conflict409Skipped ==
    (Uploaded /\ skip_existing /\ asked = "false"
        /\ ~ resp.is_redirect /\ resp.status_code = 409) =>
        /\ CallsOf("print_skip", idx) # {}
        /\ CallsOf("check_status_code", idx) = {}
        /\ Proceeds

\* A 409 for a payload that is not the last one.
C4_Witness ==
    /\ Uploaded /\ skip_existing /\ asked = "false"
    /\ ~ resp.is_redirect /\ resp.status_code = 409
    /\ idx < Len(uploads)
    /\ pc = "loop"

\* The response is one of the two known "already exists" answers.
IsDuplicate(r, filename) ==
    \/ r.status_code = 409
    \/ /\ r.status_code = 400
       /\ \/ startswith(r.reason, <<"File already exists">>)
          \/ startswith(r.reason,
                        <<"A file named \"">> \o basename(filename)
                            \o <<"\" already exists for">>)

\* The status of the response is an HTTP error status.
IsErrorStatus(r) == r.status_code >= 400

\* C5 as stated: after every payload whose response is not a redirect
\* (accepted, rejected with an error status, or a duplicate) the later
\* payloads are still attempted.
C5_OnlyRedirectAborts ==
    (Uploaded /\ ~ resp.is_redirect) => Proceeds

\* C5 as amended: the batch goes on after a non-redirect response that is
\* accepted by the status check or, with skip_existing on, is a recognised
\* duplicate; it is aborted by a redirect (RedirectDetected) and by a
\* response that fails the status check (the error of check_status_code).
C5_AbortsOnRedirectOrRejection ==
    Uploaded =>
        LET dup == skip_existing /\ IsDuplicate(resp, uploads[idx])
        IN /\ (~ resp.is_redirect /\ (dup \/ ~ IsErrorStatus(resp)))
                  => Proceeds
           /\ resp.is_redirect
                  => (pc = "raised" /\ exc.type = "RedirectDetected")
           /\ (~ resp.is_redirect /\ ~ dup /\ IsErrorStatus(resp))
                  => (pc = "raised" /\ exc.type = "HTTPError")

\* An accepted payload and then a rejected one that ends the batch early.
C5_Witness ==
    /\ Uploaded /\ ~ resp.is_redirect /\ resp.status_code = 500
    /\ idx >= 2 /\ idx < Len(uploads)
    /\ pc = "raised"
    /\ CallsOf("check_status_code", idx - 1) # {}

\* The name under which a signature of the payload would be supplied.
SignedNameOf(filename) == basename(filename) \o <<".asc">>

\* The payloads whose signature was supplied among the resolved files.
HasSuppliedSignature(i) ==
    \E k \in DOMAIN files :
        /\ endswith(files[k], ".asc")
        /\ basename(files[k]) = SignedNameOf(uploads[i])

\* C6: for every payload whose signed filename is a key of the signature
\* map, the supplied .asc file is attached with add_gpg_signature() before
\* the upload call, and sign() is not invoked for it, even with signing on.
C6_SuppliedSignatureAttached ==
    \A i \in 1..idx :
        HasSuppliedSignature(i) =>
            /\ SignedNameOf(uploads[i]) \in DOMAIN signatures
            /\ CallsOf("sign", i) = {}
            /\ \A u \in CallsOf("upload", i) :
                 \E k \in CallsOf("add_gpg_signature", i) :
                    /\ k < u
                    /\ calls[k].args[2] = SignedNameOf(uploads[i])
                    /\ \E j \in DOMAIN files :
                          /\ files[j] = calls[k].args[1]
                          /\ endswith(files[j], ".asc")
                          /\ basename(files[j]) = SignedNameOf(uploads[i])

\* With signing on, a payload with a supplied signature has been uploaded.
C6_Witness ==
    /\ sign
    /\ \E i \in 1..idx :
          /\ HasSuppliedSignature(i)
          /\ CallsOf("upload", i) # {}
          /\ CallsOf("add_gpg_signature", i) # {}
    /\ pc = "returned"

\* The argument names no existing file and matches no file as a pattern.
Unmatched(arg) == arg \notin FS /\ ~ \E f \in FS : fnmatch(f, arg)

\* upload() raised the error of find_dists naming `arg`, and did nothing
\* else: no repository client, no call for any file.
FailedNaming(arg) ==
    /\ pc = "raised"
    /\ exc = [type |-> "ValueError",
              message |-> <<"Cannot find file (or expand pattern): '">>
                              \o arg \o <<"'">>]
    /\ calls = <<>>
    /\ uploads = <<>>

\* C7 as stated: if an argument matches nothing, the error names that
\* argument and upload() performs no network activity.
C7_ErrorNamesEachUnmatched ==
    pc # "start" =>
        \A k \in DOMAIN dists : Unmatched(dists[k]) => FailedNaming(dists[k])

\* C7 as amended: if some argument matches nothing, the error names the
\* first such argument in input order, and upload() performs no network
\* activity.
C7_ErrorNamesFirstUnmatched ==
    (pc # "start" /\ \E k \in DOMAIN dists : Unmatched(dists[k])) =>
        LET first == CHOOSE k \in DOMAIN dists :
                        /\ Unmatched(dists[k])
                        /\ \A j \in 1..(k - 1) : ~ Unmatched(dists[j])
        IN FailedNaming(dists[first])

\* An argument that matches files, then one that matches nothing.
C7_Witness ==
    /\ pc = "raised"
    /\ exc.type = "ValueError"
    /\ Len(dists) = 2
    /\ ~ Unmatched(dists[1])
    /\ Unmatched(dists[2])

----------------------------------------------------------------------------
(* Properties of find_dists and group_wheel_files_first *)

\* How many times x occurs in the list s.
Occurrences(s, x) == Cardinality({k \in DOMAIN s : s[k] = x})

HasWheel(s) == \E k \in DOMAIN s : endswith(s[k], ".whl")

NotWheel(f) == ~ endswith(f, ".whl")

\* C8: when a wheel was resolved, the result is a permutation of the
\* resolved list with every wheel before every other file, and the order
\* among the wheels and among the other files is that of the resolved list.
C8_WheelsFirstStable ==
    (pc = "found" /\ HasWheel(resolved)) =>
        /\ Len(files) = Len(resolved)
        /\ \A f \in FS : Occurrences(files, f) = Occurrences(resolved, f)
        /\ \A i, j \in DOMAIN files :
              (i < j /\ endswith(files[j], ".whl"))
                  => endswith(files[i], ".whl")
        /\ SelectSeq(files, is_wheel) = SelectSeq(resolved, is_wheel)
        /\ SelectSeq(files, NotWheel) = SelectSeq(resolved, NotWheel)

\* Two different wheels and two different other files were resolved, a
\* wheel after another file, so that the grouping moved something.
C8_Witness ==
    /\ pc = "found"
    /\ files # resolved
    /\ \E i, j \in DOMAIN resolved :
          /\ i < j
          /\ resolved[i] # resolved[j]
          /\ endswith(resolved[i], ".whl") /\ endswith(resolved[j], ".whl")
    /\ \E i, j \in DOMAIN resolved :
          /\ i < j
          /\ resolved[i] # resolved[j]
          /\ NotWheel(resolved[i]) /\ NotWheel(resolved[j])

\* What one argument resolves to: itself when it names an existing path,
\* else its matches in the order the expansion returns them.
ResolutionOf(arg) == IF arg \in FS THEN <<arg>> ELSE glob(arg, listing)

RECURSIVE ConcatResolutions(_)
ConcatResolutions(ds) ==
    IF ds = <<>> THEN <<>>
    ELSE ResolutionOf(Head(ds)) \o ConcatResolutions(Tail(ds))

\* C9: when no wheel was resolved, the result of find_dists is exactly the
\* concatenation, in input order, of what each argument resolves to.
C9_NoWheelNoReordering ==
    (pc = "found" /\ ~ HasWheel(ConcatResolutions(dists))) =>
        /\ files = ConcatResolutions(dists)
        /\ files = resolved

\* A pattern expanded to a signature file listed before its distribution,
\* with another argument before it.
C9_Witness ==
    /\ pc = "found"
    /\ ~ HasWheel(files)
    /\ Len(dists) = 2
    /\ dists[2] \notin FS
    /\ Len(files) = 3
    /\ endswith(files[2], ".asc")
    /\ ~ endswith(files[3], ".asc")

----------------------------------------------------------------------------
(* Properties of skip_upload *)

\* C10: with skip_existing false, skip_upload returns a false value for
\* every status code and reason, status 409 and status 400 with a reason
\* starting with "File already exists" included.
C10_NeverSkipsWhenDisabled ==
    (pc = "classified" /\ ~ skip_call.skip_existing) =>
        skip_call.result = FALSE

\* skip_upload was applied, with skip_existing false, to a 400 response
\* whose reason starts with "File already exists".
C10_Witness ==
    /\ pc = "classified"
    /\ skip_call.called
    /\ ~ skip_call.skip_existing
    /\ skip_call.response.status_code = 400
    /\ skip_call.response.reason = <<"File already exists", ".">>
    /\ skip_call.result = FALSE

\* The reason text begins with one of the two known "already exists"
\* phrasings, the first of them naming the base filename `base`.
ReasonSaysExists(reason, base) ==
    \/ startswith(reason, <<"File already exists">>)
    \/ startswith(reason, <<"A file named \"">> \o base
                              \o <<"\" already exists for">>)

\* C11: with skip_existing true, skip_upload returns true if and only if
\* the status is 409, or the status is 400 and the reason starts with
\* 'A file named "<package.basefilename>" already exists for' or with
\* 'File already exists'; every other combination returns false.
C11_SkipsExactlyKnownDuplicates ==
    (pc = "classified" /\ skip_call.skip_existing) =>
        (skip_call.result = TRUE
            <=> \/ skip_call.response.status_code = 409
                \/ /\ skip_call.response.status_code = 400
                   /\ ReasonSaysExists(skip_call.response.reason,
                                       skip_call.package.basefilename))

\* skip_upload returned true for a 400 response whose reason names the
\* file of the package.
C11_Witness ==
    /\ pc = "classified"
    /\ skip_call.skip_existing
    /\ skip_call.response.status_code = 400
    /\ skip_call.package.basefilename = <<"a", ".whl">>
    /\ skip_call.response.reason =
          <<"A file named \"", "a", ".whl", "\" already exists for", " pkg">>
    /\ skip_call.result = TRUE

----------------------------------------------------------------------------
(* Further properties of upload() *)

NotSignature(f) == ~ endswith(f, ".asc")

\* The payload list: the wheel-first resolved list without its .asc files.
PayloadList == SelectSeq(files, NotSignature)

\* Positions in the call log of all the calls of `op`.
AllCallsOf(op) == {k \in DOMAIN calls : calls[k].op = op}

\* C12: repository.upload() is called for payloads one at a time in the
\* order of the payload list: the files passed to upload() are, in call
\* order, the entries of the payload list at strictly increasing positions,
\* so no payload is uploaded more often than it occurs in the list.
C12_UploadsInPayloadOrder ==
    /\ \A k \in AllCallsOf("upload") :
          /\ calls[k].idx \in 1..Len(PayloadList)
          /\ calls[k].args = <<PayloadList[calls[k].idx]>>
    /\ \A k1, k2 \in AllCallsOf("upload") :
          k1 < k2 => calls[k1].idx < calls[k2].idx

\* A finished run over a payload list that holds a file twice, a wheel
\* moved before a non-wheel, with one payload skipped between the uploads.
C12_Witness ==
    /\ pc = "returned"
    /\ Len(PayloadList) = 4
    /\ PayloadList[1] = PayloadList[2]
    /\ files # resolved
    /\ Count("upload") = 3
    /\ CallsOf("upload", 3) = {}
    /\ CallsOf("upload", 4) # {}

\* upload() got past find_dists: the pairing of lines 78-81 was made.
Paired == Count("create_repository") > 0

\* The resolved signature files, and the keys they are filed under.
SignatureFiles == {files[k] : k \in {j \in DOMAIN files : endswith(files[j], ".asc")}}

SignatureKeys == {basename(f) : f \in SignatureFiles}

\* The payload list is the resolved files not ending in ".asc", in order,
\* and no file ending in ".asc" is passed to from_filename() or upload().
PayloadsAreTheNonSignatures ==
    /\ uploads = SelectSeq(files, NotSignature)
    /\ \A k \in DOMAIN calls :
          calls[k].op \in {"from_filename", "upload"}
              => ~ endswith(calls[k].args[1], ".asc")

\* C13 as stated: the payload list is exactly the resolved files not ending
\* in ".asc", the signature map contains exactly the ".asc" files, each
\* under its base filename, and no ".asc" file is passed to from_filename()
\* or upload().
C13_MapHoldsEverySignature ==
    Paired =>
        /\ PayloadsAreTheNonSignatures
        /\ DOMAIN signatures = SignatureKeys
        /\ \A f \in SignatureFiles : signatures[basename(f)] = f

\* C13 as amended: the keys of the signature map are exactly the base
\* filenames of the resolved ".asc" files, and each key maps to the last
\* resolved ".asc" file with that base filename.
C13_MapHoldsLastSignaturePerName ==
    Paired =>
        /\ PayloadsAreTheNonSignatures
        /\ DOMAIN signatures = SignatureKeys
        /\ \A key \in SignatureKeys :
              \E k \in DOMAIN files :
                 /\ endswith(files[k], ".asc")
                 /\ basename(files[k]) = key
                 /\ signatures[key] = files[k]
                 /\ \A j \in DOMAIN files :
                       (j > k /\ endswith(files[j], ".asc"))
                           => basename(files[j]) # key

\* Two signature files with one base filename, from two directories, were
\* resolved with their distribution, which was uploaded with a signature.
C13_Witness ==
    /\ pc = "returned"
    /\ Cardinality(SignatureFiles) = 2
    /\ Cardinality(SignatureKeys) = 1
    /\ \E i \in 1..Len(uploads) :
          /\ CallsOf("add_gpg_signature", i) # {}
          /\ CallsOf("upload", i) # {}

\* The pass for uploads[idx] ended in one of the three good ways: skipped
\* by the existence check, recognised as a duplicate, or accepted by the
\* status check (a redirect is none of them).
LastPassGood ==
    /\ idx > 0
    /\ \/ (skip_existing /\ asked = "true")
       \/ /\ Uploaded
          /\ ~ resp.is_redirect
          /\ \/ skip_existing /\ IsDuplicate(resp, uploads[idx])
             \/ ~ IsErrorStatus(resp)

\* C14: when resolution succeeded and every payload was skipped by the
\* existence check, recognised as a duplicate or accepted by the status
\* check, upload() ends normally after one pass for each payload: nothing
\* is raised after a good pass, a further pass is possible while payloads
\* are left, and at the return every payload was processed exactly once.
C14_AllGoodTerminatesNormally ==
    Paired =>
        /\ LastPassGood => (exc = NoException /\ pc \in {"loop", "returned"})
        /\ pc = "raised" => ~ LastPassGood
        /\ pc = "loop" => (idx < Len(uploads) /\ ENABLED UploadFile)
        /\ pc = "returned" =>
              /\ exc = NoException
              /\ idx = Len(uploads)
              /\ \A i \in 1..Len(uploads) :
                    Cardinality(CallsOf("from_filename", i)) = 1
              /\ \A k \in AllCallsOf("from_filename") :
                    calls[k].idx \in 1..Len(uploads)

\* A normal return after three payloads or more: one skipped by the
\* existence check, one a duplicate, one accepted.
C14_Witness ==
    /\ pc = "returned"
    /\ Len(uploads) >= 3
    /\ \E i \in 1..idx :
          CallsOf("print_skip", i) # {} /\ CallsOf("upload", i) = {}
    /\ \E i \in 1..idx :
          CallsOf("print_skip", i) # {} /\ CallsOf("upload", i) # {}
    /\ \E i \in 1..idx : CallsOf("check_status_code", i) # {}

\* Positions in the call log of the signature operations for payload i.
SignatureOps(i) == CallsOf("add_gpg_signature", i) \cup CallsOf("sign", i)

\* C15: the existence check runs before any signature work: a payload
\* skipped because skip_existing is on and package_is_uploaded returned
\* true gets neither add_gpg_signature() nor sign(), even with a matching
\* .asc supplied or signing on; for any payload, a signature operation
\* comes after the existence check when that check is made.
C15_ExistenceCheckBeforeSignature ==
    /\ (idx > 0 /\ skip_existing /\ asked = "true") => SignatureOps(idx) = {}
    /\ \A i \in 1..idx :
          /\ (CallsOf("print_skip", i) # {} /\ CallsOf("upload", i) = {})
                => SignatureOps(i) = {}
          /\ \A s \in SignatureOps(i) :
                \A p \in CallsOf("package_is_uploaded", i) : p < s

\* A payload with a supplied signature is skipped by the existence check
\* while signing is on, after an earlier payload was signed and uploaded.
C15_Witness ==
    /\ idx > 1 /\ skip_existing /\ asked = "true"
    /\ sign
    /\ HasSuppliedSignature(idx)
    /\ \E i \in 1..(idx - 1) : CallsOf("sign", i) # {}

\* C16: the redirect check comes before the duplicate classification and
\* the status check: a response with is_redirect true raises
\* RedirectDetected also with skip_existing on and a status of 409 or of
\* 400 with an "already exists" reason; it is not reported as a skip, is
\* not given to skip_upload() or check_status_code(), and the loop ends.
C16_RedirectBeforeClassification ==
    /\ (Uploaded /\ resp.is_redirect) =>
          /\ exc = [type |-> "RedirectDetected", message |-> redirect_message]
          /\ pc = "raised"
          /\ CallsOf("print_skip", idx) = {}
          /\ CallsOf("check_status_code", idx) = {}
    /\ skip_call.called => ~ skip_call.response.is_redirect

\* With skip_existing on, a redirect whose status and reason are those of
\* a duplicate, for a payload that is not the last one.
C16_Witness ==
    /\ Uploaded /\ resp.is_redirect
    /\ skip_existing /\ asked = "false"
    /\ resp.status_code = 400
    /\ ReasonSaysExists(resp.reason, basename(uploads[idx]))
    /\ idx < Len(uploads)
    /\ pc = "raised"

\* C17: each package gets at most one signature operation in the whole
\* run: at most one call of add_gpg_signature() or sign(); sign() only
\* with the sign setting on and no entry in the signature map for the
\* package's signed filename; with no entry and signing off the package is
\* uploaded with no signature operation.
C17_AtMostOneSignatureOperation ==
    \A i \in 1..idx :
        /\ Cardinality(SignatureOps(i)) <= 1
        /\ CallsOf("sign", i) # {} =>
              (sign /\ SignedNameOf(uploads[i]) \notin SignatureKeys)
        /\ CallsOf("add_gpg_signature", i) # {} =>
              SignedNameOf(uploads[i]) \in SignatureKeys
        /\ (~ sign /\ SignedNameOf(uploads[i]) \notin SignatureKeys) =>
              SignatureOps(i) = {}

\* A finished run with signing on in which one payload was signed and
\* another got its supplied signature.
C17_Witness ==
    /\ pc = "returned"
    /\ sign
    /\ \E i \in 1..idx :
          /\ CallsOf("sign", i) # {}
          /\ CallsOf("upload", i) # {}
    /\ \E i \in 1..idx :
          /\ CallsOf("add_gpg_signature", i) # {}
          /\ CallsOf("upload", i) # {}

\* The argument list without its k-th argument.
WithoutArg(k) ==
    [j \in 1..(Len(dists) - 1) |-> IF j < k THEN dists[j] ELSE dists[j + 1]]

\* The k-th argument names an existing signature file.
IsSignatureArg(k) == dists[k] \in FS /\ endswith(dists[k], ".asc")

\* The k-th argument is an orphan signature: an existing .asc file whose
\* base filename is the signed filename of no payload.
IsOrphanArg(k) ==
    /\ IsSignatureArg(k)
    /\ \A i \in DOMAIN uploads : SignedNameOf(uploads[i]) # basename(dists[k])

\* The run on the arguments without the k-th one resolves to the same
\* payloads, and its pass for the next payload makes the same calls and
\* ends the same way, for every answer of the repository.
SameRunWithout(k) ==
    LET r == find_dists(WithoutArg(k), listing)
    IN /\ ~ r.raised
       /\ payloads_of(r.result) = uploads
       /\ pc = "loop" =>
             \A u \in BOOLEAN, response \in UploadResponses :
                process_file(uploads[idx + 1], idx + 1,
                             signatures_of(r.result), skip_existing, sign,
                             u, response)
                = process_file(uploads[idx + 1], idx + 1, signatures,
                               skip_existing, sign, u, response)

\* C18: an orphan .asc file among the arguments raises no error and
\* changes nothing: the run without it has the same payloads and, answer
\* for answer of the repository, the same calls and the same outcome for
\* every payload; find_dists fails with a signature argument exactly when
\* it fails without it.
C18_OrphanSignatureUnused ==
    /\ Paired => \A k \in DOMAIN dists : IsOrphanArg(k) => SameRunWithout(k)
    /\ pc # "start" =>
          \A k \in DOMAIN dists :
             IsSignatureArg(k) =>
                (find_dists(WithoutArg(k), listing).raised
                    <=> (pc = "raised" /\ exc.type = "ValueError"))

\* A finished run with signing off over a wheel and an orphan signature:
\* the wheel was uploaded with no signature operation.
C18_Witness ==
    /\ pc = "returned"
    /\ ~ sign
    /\ Len(dists) = 2
    /\ IsOrphanArg(2)
    /\ DOMAIN signatures # {}
    /\ Len(uploads) = 1
    /\ CallsOf("upload", 1) # {}
    /\ SignatureOps(1) = {}

\* With skip_existing off: no existence check, no skip, and no response
\* classified as a duplicate by skip_upload().
NothingSkippedWhenDisabled ==
    /\ Count("package_is_uploaded") = 0
    /\ Count("print_skip") = 0
    /\ asked = "not_called"
    /\ skip_call.called => skip_call.result = FALSE

\* C19 as stated: with skip_existing off, package_is_uploaded() is never
\* called and no file is reported as skipped; every payload reaches
\* upload(), and every non-redirect response is handed to
\* check_status_code().
C19_EveryPayloadUploadedWhenDisabled ==
    (~ skip_existing /\ Paired) =>
        /\ NothingSkippedWhenDisabled
        /\ Exited => \A i \in DOMAIN uploads : CallsOf("upload", i) # {}
        /\ (Uploaded /\ ~ resp.is_redirect)
              => CallsOf("check_status_code", idx) # {}

\* C19 as amended: with skip_existing off, package_is_uploaded() is never
\* called and no file is reported as skipped; every payload the loop gets
\* to reaches upload() exactly once, none being processed after a redirect
\* or a failed status check ended the batch, and every non-redirect
\* response is handed to check_status_code().
C19_EveryProcessedPayloadUploadedWhenDisabled ==
    (~ skip_existing /\ Paired) =>
        /\ NothingSkippedWhenDisabled
        /\ \A i \in 1..idx : Cardinality(CallsOf("upload", i)) = 1
        /\ \A i \in (idx + 1)..Len(uploads) : CallsOf("upload", i) = {}
        /\ pc = "returned" => idx = Len(uploads)
        /\ \A i \in 1..(idx - 1) : CallsOf("check_status_code", i) # {}
        /\ (Uploaded /\ ~ resp.is_redirect)
              => Cardinality(CallsOf("check_status_code", idx)) = 1
        /\ (Uploaded /\ resp.is_redirect)
              => CallsOf("check_status_code", idx) = {}

\* With skip_existing off, a second payload answered 400 "File already
\* exists" was handed to the status check, which ended the batch.
C19_Witness ==
    /\ ~ skip_existing
    /\ idx >= 2
    /\ Uploaded /\ ~ resp.is_redirect
    /\ resp.status_code = 400
    /\ resp.reason = <<"File already exists">>
    /\ CallsOf("check_status_code", idx) # {}
    /\ pc = "raised"

\* How many calls of `op` were made with the file f as first argument.
CallsWithFile(op, f) ==
    Cardinality({k \in AllCallsOf(op) : calls[k].args[1] = f})

\* The positions of the payload list that hold the file f.
PositionsOf(f) == {i \in DOMAIN uploads : uploads[i] = f}

\* C20: find_dists does no de-duplication: a file resolved more than once
\* is in the file list once per resolution, upload() makes one pass per
\* occurrence, and each pass that is reached calls upload() once unless
\* the existence check skipped it.
C20_NoDeduplication ==
    Paired =>
        /\ \A f \in FS :
              /\ Occurrences(files, f)
                    = Occurrences(ConcatResolutions(dists), f)
              /\ ~ endswith(f, ".asc") =>
                    Occurrences(uploads, f) = Occurrences(files, f)
              /\ pc = "returned" =>
                    CallsWithFile("from_filename", f) = Occurrences(uploads, f)
              /\ CallsWithFile("upload", f)
                    = Cardinality({i \in PositionsOf(f) :
                                      CallsOf("upload", i) # {}})
        /\ \A i \in 1..idx :
              \/ Cardinality(CallsOf("upload", i)) = 1
              \/ /\ CallsOf("upload", i) = {}
                 /\ skip_existing
                 /\ CallsOf("package_is_uploaded", i) # {}
                 /\ CallsOf("print_skip", i) # {}

\* A wheel given by its path and matched again by a pattern was uploaded
\* twice in a finished run.
C20_Witness ==
    /\ pc = "returned"
    /\ Len(dists) = 2
    /\ dists[1] = <<"d", "/", "a", ".whl">>
    /\ dists[2] \notin FS
    /\ Occurrences(files, <<"d", "/", "a", ".whl">>) = 2
    /\ CallsWithFile("upload", <<"d", "/", "a", ".whl">>) = 2

=============================================================================
